---- MODULE Spec2Model ----
(***************************************************************************)
(* Model of django-csvpermissions: the CSV permission table compiler       *)
(* (csv_permissions/permissions.py: _parse_csv, _resolve_functions,        *)
(* _resolve_function), the evaluator resolvers of                          *)
(* csv_permissions/evaluators.py, and the authentication backend           *)
(* CSVPermissionsBackend (__init__, has_perm, is_global_perm).  Spec is    *)
(* one process constructing backends and asking them; RegistrySpec is two  *)
(* request threads constructing backends step by step through lru_cache    *)
(* while files are rewritten and the paths setting is overridden.          *)
(*                                                                         *)
(* A CSV file is modelled after csv.reader has split it: a list of field   *)
(* names and a list of rows, each row a list of cell strings.  Python      *)
(* dicts are modelled as TLA+ functions; exception messages are abstracted *)
(* to the exception type and a short tag naming the raise statement.       *)
(***************************************************************************)
EXTENDS Integers, Sequences, FiniteSets, TLC

VARIABLES
    files,      \* path -> content of the CSV file at that path
    settings,   \* django settings: CSV_PERMISSIONS_PATHS
    cache,      \* the lru_cache of _resolve_functions: list of <<key, table>>, most recent last
    backend,    \* the CSVPermissionsBackend instance last constructed (or the exception raised)
    last,       \* the last has_perm call on that instance and its outcome
    threads,    \* request threads: each one's position in CSVPermissionsBackend() and its locals
    history     \* what has happened so far: edits of the files, first table built and
                \* failed builds per cache key

vars == <<files, settings, cache, backend, last, threads, history>>

----------------------------------------------------------------------------
(* Bounds of the model *)

MaxRows == 2        \* total number of rows after the header, over the files of
                    \* a deployment of one or two files
MaxEdits == 1       \* number of times a file is rewritten while the process runs

(* Program constants *)

LruMaxSize == 32    \* @lru_cache(maxsize=32)

None == "<None>"    \* Python's None where a string is expected
NoObject == "<no object>"   \* obj=None in has_perm

----------------------------------------------------------------------------
(* Python string helpers *)

RECURSIVE LStrip(_)
LStrip(s) ==
    IF Len(s) > 0 /\ SubSeq(s, 1, 1) = " " THEN LStrip(SubSeq(s, 2, Len(s))) ELSE s

RECURSIVE RStrip(_)
RStrip(s) ==
    IF Len(s) > 0 /\ SubSeq(s, Len(s), Len(s)) = " "
    THEN RStrip(SubSeq(s, 1, Len(s) - 1)) ELSE s

\* str.strip()
Strip(s) == LStrip(RStrip(s))

\* str.startswith(prefix)
StartsWith(s, prefix) ==
    Len(s) >= Len(prefix) /\ SubSeq(s, 1, Len(prefix)) = prefix

\* s.split(":", 1)[-1]: what follows the first colon (all of s without a colon)
AfterFirstColon(s) ==
    LET RECURSIVE Find(_)
        Find(i) == IF i > Len(s) THEN 0
                   ELSE IF SubSeq(s, i, i) = ":" THEN i ELSE Find(i + 1)
        k == Find(1)
    IN IF k = 0 THEN s ELSE SubSeq(s, k + 1, Len(s))

----------------------------------------------------------------------------
(* The host project: django's app registry and the rules modules *)

AppLabel == "test_csv_permissions"

\* apps.get_app_config(label) raises LookupError for any other label
InstalledApps == {AppLabel}

\* app_config.get_model(name) raises LookupError for any other name;
\* the value is model._meta.model_name
ModelNames == [TestModelA |-> "testmodela"]

\* the functions of <app>.rules that import_string finds, with their result
RulesModule ==
    [testmodela_own_model_a |-> TRUE, own_model_a_or_model_b |-> FALSE,
     given_object |-> TRUE, testmodela_own_ |-> TRUE]

\* the functions of <app>.rules whose result is that value only when they are
\* handed an object (def given_object(user, obj=None): return obj is not None)
ObjectRules == {"given_object"}

_PREDEFINED_ACTION_IS_GLOBAL ==
    [list |-> TRUE, detail |-> FALSE, create |-> TRUE, add |-> TRUE,
     change |-> FALSE, update |-> FALSE, delete |-> FALSE]

\* model is None (no Model cell) or a model_name
_default_resolve_rule_name(app_label, model, action, is_global) ==
    IF model # None
    THEN app_label \o "." \o action \o "_" \o model
    ELSE app_label \o "." \o action

----------------------------------------------------------------------------
(* Exceptions: the Python type and the raise statement *)

Raise(type, tag) == [ok |-> FALSE, type |-> type, tag |-> tag]

----------------------------------------------------------------------------
(* csv.DictReader: the dict of one row *)

FixedColumns == <<"Model", "App", "Action", "Is Global">>

\* dict(zip(fieldnames, row)), missing cells None (restval); with a repeated
\* field name the last column wins
RowDict(fieldnames, row) ==
    [name \in {fieldnames[i] : i \in 1..Len(fieldnames)} |->
        LET cols == {i \in 1..Len(fieldnames) : fieldnames[i] = name /\ i <= Len(row)}
            last_col == CHOOSE i \in cols : \A j \in cols : j <= i
        IN IF cols = {} THEN None ELSE row[last_col]]

\* DictReader puts the cells beyond the field names under the key None, as a list
HasRestKey(fieldnames, row) == Len(row) > Len(fieldnames)

IsBlank(x) == x = None \/ Strip(x) = ""

\* all(x is None or x.strip() == "" for x in row.values()): "blank", "data",
\* or "AttributeError" when every cell is blank and the rest list is reached
\* (a list has no strip())
RowEmptiness(fieldnames, row) ==
    LET d == RowDict(fieldnames, row)
    IN IF \E name \in DOMAIN d : ~IsBlank(d[name]) THEN "data"
       ELSE IF HasRestKey(fieldnames, row) THEN "AttributeError"
       ELSE "blank"

----------------------------------------------------------------------------
(* permissions.py: _parse_csv *)

PartiallyResolvedPermission(app_config, model, action, access_level) ==
    [app_config |-> app_config, model |-> model, action |-> action,
     access_level |-> access_level]

EmptyDict == [k \in {} |-> None]

\* The loop variables of "for row in reader" before the first row; perm_order
\* is the insertion order of the keys of the two dicts
NoRowsParsed ==
    [ok |-> TRUE, was_empty |-> TRUE, perm_is_global |-> EmptyDict,
     perm_user_type_details |-> EmptyDict, perm_order |-> <<>>]

\* lines 260-272: the row's permission rule_name with its flag and its cells
\* goes into the two dicts
\* lines 258-272 keeping the cells of the first row of a permission
StoreRowKeepingFirst(acc, rule_name, is_global, cells) ==
    [ok |-> TRUE,
     was_empty |-> FALSE,
     perm_is_global |->
        [p \in DOMAIN acc.perm_is_global \cup {rule_name} |->
            IF p \in DOMAIN acc.perm_is_global THEN acc.perm_is_global[p] ELSE is_global],
     perm_user_type_details |->
        [p \in DOMAIN acc.perm_user_type_details \cup {rule_name} |->
            IF p \in DOMAIN acc.perm_user_type_details
            THEN acc.perm_user_type_details[p] ELSE cells],
     perm_order |->
        IF rule_name \in DOMAIN acc.perm_is_global THEN acc.perm_order
        ELSE Append(acc.perm_order, rule_name)]

StoreRow(acc, rule_name, is_global, cells) ==
    [ok |-> TRUE,
     was_empty |-> FALSE,
     perm_is_global |->
        [p \in DOMAIN acc.perm_is_global \cup {rule_name} |->
            IF p \in DOMAIN acc.perm_is_global THEN acc.perm_is_global[p] ELSE is_global],
     perm_user_type_details |->
        [p \in DOMAIN acc.perm_user_type_details \cup {rule_name} |->
            IF p = rule_name THEN cells ELSE acc.perm_user_type_details[p]],
     perm_order |->
        IF rule_name \in DOMAIN acc.perm_is_global THEN acc.perm_order
        ELSE Append(acc.perm_order, rule_name)]

\* lines 240-272 without the test of lines 251-256
ParseDataRowAnyFlag(acc, d, user_types, model, is_global) ==
    StoreRow(acc,
             _default_resolve_rule_name(d["App"], model, d["Action"], is_global),
             is_global,
             [user_type \in {user_types[i] : i \in 1..Len(user_types)} |->
                PartiallyResolvedPermission(d["App"], model, d["Action"], d[user_type])])

\* lines 240-272 for the dict d of a row that is neither blank nor a comment,
\* model being the model of its Model cell and is_global its flag
ParseDataRow(acc, d, user_types, model, is_global) ==
    IF d["Action"] \in DOMAIN _PREDEFINED_ACTION_IS_GLOBAL
       /\ _PREDEFINED_ACTION_IS_GLOBAL[d["Action"]] # is_global
    THEN Raise("RuntimeError", "Invalid action / global setting")
    ELSE StoreRow(acc,
                  _default_resolve_rule_name(d["App"], model, d["Action"], is_global),
                  is_global,
                  [user_type \in {user_types[i] : i \in 1..Len(user_types)} |->
                    PartiallyResolvedPermission(d["App"], model, d["Action"], d[user_type])])

\* The body of "for row in reader" for the dict d of a row; emptiness is the
\* outcome of the test of line 231
ParseRowDict(acc, d, user_types, emptiness) ==
    IF emptiness = "AttributeError" THEN Raise("AttributeError", "list.strip")
    ELSE IF emptiness = "blank" THEN [acc EXCEPT !.was_empty = FALSE]
    ELSE IF StartsWith(Strip(d["Model"]), "//") \/ StartsWith(Strip(d["Model"]), "#")
    THEN [acc EXCEPT !.was_empty = FALSE]
    ELSE IF d["App"] \notin InstalledApps THEN Raise("LookupError", "get_app_config")
    ELSE IF d["Model"] # "" /\ d["Model"] \notin DOMAIN ModelNames
    THEN Raise("LookupError", "get_model")
    ELSE IF d["Is Global"] \notin {"yes", "no"}
    THEN Raise("RuntimeError", "Invalid value for Is Global")
    ELSE ParseDataRow(acc, d, user_types,
                      IF d["Model"] = "" THEN None ELSE ModelNames[d["Model"]],
                      d["Is Global"] = "yes")

\* One row of the reader: DictReader itself skips a line without cells, the
\* loop body does not run for it
ParseRow(acc, fieldnames, row) ==
    IF row = <<>> THEN acc
    ELSE ParseRowDict(acc, RowDict(fieldnames, row),
                      SubSeq(fieldnames, 5, Len(fieldnames)),
                      RowEmptiness(fieldnames, row))

\* The loop "for row in reader" from row i on, an exception ending it
RECURSIVE ParseRows(_, _, _, _)
ParseRows(acc, fieldnames, rows, i) ==
    IF i > Len(rows) \/ ~acc.ok THEN acc
    ELSE ParseRows(ParseRow(acc, fieldnames, rows[i]), fieldnames, rows, i + 1)

\* lines 274-277: the result of the loop
ParseResult(acc, fieldnames) ==
    IF ~acc.ok THEN acc
    ELSE IF acc.was_empty THEN Raise("RuntimeError", "Empty permissions file")
    ELSE [ok |-> TRUE, perm_is_global |-> acc.perm_is_global,
          perm_user_type_details |-> acc.perm_user_type_details,
          perm_order |-> acc.perm_order,
          user_types |-> SubSeq(fieldnames, 5, Len(fieldnames))]

\* file is the content of the file at file_path
_parse_csv(file) ==
    IF Len(file.fieldnames) < 4 \/ SubSeq(file.fieldnames, 1, 4) # FixedColumns
    THEN Raise("RuntimeError", "Invalid column headers")
    ELSE IF Len(file.fieldnames) = 4
    THEN Raise("RuntimeError", "Invalid column headers")
    ELSE ParseResult(ParseRows(NoRowsParsed, file.fieldnames, file.rows, 1),
                     file.fieldnames)

----------------------------------------------------------------------------
(* permissions.py: the decision functions and _resolve_function *)

\* A decision function is a record: level names the _access_level_* function,
\* function the rule it closes over ("" for none), found whether import_string
\* found that rule
Evaluator(level, function) ==
    [level |-> level, function |-> function, found |-> function \in DOMAIN RulesModule]

\* The rule function (user, obj) of <app>.rules, or the stub that raises
permission_function(ev, user, obj) ==
    IF ev.found
    THEN (IF RulesModule[ev.function] /\ (ev.function \in ObjectRules => obj # NoObject)
          THEN "True" ELSE "False")
    ELSE "NotImplementedError"

\* _access_level_yes without its check of obj
_access_level_yes_unchecked(user, obj) == "True"

_access_level_yes(user, obj) == IF obj # NoObject THEN "RuntimeError" ELSE "True"

\* _access_level_no refusing an object as _access_level_yes does
_access_level_no_global_only(user, obj) == IF obj # NoObject THEN "RuntimeError" ELSE "False"

_access_level_no(user, obj) == "False"

\* _access_level_all without its check of obj
_access_level_all_unchecked(user, obj) == "True"

_access_level_all(user, obj) == IF obj = NoObject THEN "RuntimeError" ELSE "True"

_access_level_own(ev, user, obj) ==
    IF obj = NoObject THEN "RuntimeError" ELSE permission_function(ev, user, obj)

\* _access_level_custom asking for an object as _access_level_own does
_access_level_custom_object_only(ev, user, obj) ==
    IF obj = NoObject THEN "RuntimeError" ELSE permission_function(ev, user, obj)

_access_level_custom(ev, user, obj) == permission_function(ev, user, obj)

\* func(user, obj): "True", "False" or the type of the exception raised
Call(ev, user, obj) ==
    CASE ev.level = "yes" -> _access_level_yes(user, obj)
      [] ev.level = "no" -> _access_level_no(user, obj)
      [] ev.level = "all" -> _access_level_all(user, obj)
      [] ev.level = "own" -> _access_level_own(ev, user, obj)
      [] ev.level = "custom" -> _access_level_custom(ev, user, obj)

Resolved(ev) == [ok |-> TRUE, skipped |-> FALSE, evaluator |-> ev]

\* _resolve_function without the test of is_global of its "all" branch
_resolve_function_all_anywhere(access_level, function_name, is_global) ==
    CASE access_level = "yes" ->
            IF ~is_global
            THEN Raise("RuntimeError", "'yes' cannot be used with object-level permissions.")
            ELSE Resolved(Evaluator("yes", ""))
      [] access_level = "" -> Resolved(Evaluator("no", ""))
      [] access_level = "all" -> Resolved(Evaluator("all", ""))
      [] access_level = "own" ->
            IF is_global
            THEN Raise("RuntimeError", "'own' cannot be used with global permissions.")
            ELSE Resolved(Evaluator("own", function_name))
      [] access_level = "custom" ->
            Resolved(Evaluator("custom", function_name))

_resolve_function(access_level, function_name, is_global) ==
    CASE access_level = "yes" ->
            IF ~is_global
            THEN Raise("RuntimeError", "'yes' cannot be used with object-level permissions.")
            ELSE Resolved(Evaluator("yes", ""))
      [] access_level = "" -> Resolved(Evaluator("no", ""))
      [] access_level = "all" ->
            IF is_global
            THEN Raise("RuntimeError", "'all' cannot be used with global permissions.")
            ELSE Resolved(Evaluator("all", ""))
      [] access_level = "own" ->
            IF is_global
            THEN Raise("RuntimeError", "'own' cannot be used with global permissions.")
            ELSE Resolved(Evaluator("own", function_name))
      [] access_level = "custom" ->
            Resolved(Evaluator("custom", function_name))

\* The body of the inner loop without the test of the label of "own:"
\* (lines 357-361)
ResolveDetailAnyOwnLabel(detail, is_global) ==
    LET access_level == IF detail.access_level = None THEN "" ELSE detail.access_level
        model_name == detail.model
        label == Strip(AfterFirstColon(access_level))
    IN IF detail.model = None /\ ~is_global
       THEN Raise("RuntimeError", "Permissions without Models must be global.")
       ELSE IF StartsWith(access_level, "own:")
       THEN _resolve_function("own", model_name \o "_own_" \o label, is_global)
       ELSE IF access_level = "own"
       THEN _resolve_function("own", model_name \o "_own", is_global)
       ELSE IF StartsWith(access_level, "custom:")
       THEN IF label = ""
            THEN Raise("RuntimeError", "No custom function name specified.")
            ELSE _resolve_function("custom", label, is_global)
       ELSE IF access_level \in {"all", "", "yes"}
       THEN _resolve_function(access_level, "", is_global)
       ELSE [ok |-> TRUE, skipped |-> TRUE]

\* The body of the inner loop of _resolve_functions for one cell: the decision
\* function stored, "skipped" (the continue statement), or the exception
ResolveDetail(detail, is_global) ==
    LET access_level == IF detail.access_level = None THEN "" ELSE detail.access_level
        model_name == detail.model
        label == Strip(AfterFirstColon(access_level))
    IN IF detail.model = None /\ ~is_global
       THEN Raise("RuntimeError", "Permissions without Models must be global.")
       ELSE IF StartsWith(access_level, "own:")
       THEN IF label = ""
            THEN Raise("RuntimeError", "No function name specified for 'own:'.")
            ELSE _resolve_function("own", model_name \o "_own_" \o label, is_global)
       ELSE IF access_level = "own"
       THEN _resolve_function("own", model_name \o "_own", is_global)
       ELSE IF StartsWith(access_level, "custom:")
       THEN IF label = ""
            THEN Raise("RuntimeError", "No custom function name specified.")
            ELSE _resolve_function("custom", label, is_global)
       ELSE IF access_level \in {"all", "", "yes"}
       THEN _resolve_function(access_level, "", is_global)
       ELSE [ok |-> TRUE, skipped |-> TRUE]   \* warnings.warn(...); continue

----------------------------------------------------------------------------
(* permissions.py: _resolve_functions *)

Range(seq) == {seq[i] : i \in 1..Len(seq)}

\* The keys of dict.fromkeys(seq) in insertion order
RECURSIVE Unique(_)
Unique(seq) ==
    IF seq = <<>> THEN <<>>
    ELSE LET front == Unique(SubSeq(seq, 1, Len(seq) - 1))
             x == seq[Len(seq)]
         IN IF x \in Range(front) THEN front ELSE Append(front, x)

\* The state of the loop "for file_path in file_paths" before any file
NoFilesMerged ==
    [ok |-> TRUE,
     permission_is_global |-> EmptyDict,
     known_user_types |-> {},
     known_perms |-> {},
     partially_resolved |-> EmptyDict,
     perm_order |-> <<>>,              \* insertion order of partially_resolved
     type_order |-> EmptyDict]         \* insertion order of partially_resolved[perm]

\* line 323 never finding a difference: the flag of the later file wins
FlagInconsistentNever(is_global, previous) == FALSE

\* permission_is_global[permission] != is_global
FlagInconsistent(is_global, previous) == previous # is_global

\* the dataclass comparison leaving access_level out
InconsistentIgnoringText(partially_resolved, previous) ==
    \/ partially_resolved.app_config # previous.app_config
    \/ partially_resolved.model # previous.model
    \/ partially_resolved.action # previous.action

\* partially_resolved != ...[permission][user_type] with "is not" for "!=":
\* two parsed files never share an object
InconsistentByIdentity(partially_resolved, previous) == TRUE

\* the comparison letting a later file fill a cell an earlier file left empty
InconsistentUnlessEarlierEmpty(partially_resolved, previous) ==
    /\ previous.access_level # ""
    /\ partially_resolved # previous

\* partially_resolved != permission_to_user_type_to_partially_resolved[permission][user_type],
\* the dataclass comparison of the four fields
Inconsistent(partially_resolved, previous) == partially_resolved # previous

\* The user types of the cells merged so far for permission p
Seen(m, p) ==
    IF p \in DOMAIN m.partially_resolved THEN DOMAIN m.partially_resolved[p] ELSE {}

\* lines 317-336: the result parsed of _parse_csv is merged into m
MergeParsed(m, parsed) ==
    IF ~parsed.ok THEN parsed
    ELSE IF \E p \in DOMAIN parsed.perm_is_global :
              /\ p \in DOMAIN m.permission_is_global
              /\ FlagInconsistent(parsed.perm_is_global[p], m.permission_is_global[p])
    THEN Raise("ValueError", "'Is Global' is inconsistent with a previous CSV file")
    ELSE IF \E p \in DOMAIN parsed.perm_is_global :
              \E u \in Range(parsed.user_types) \cap Seen(m, p) :
                Inconsistent(parsed.perm_user_type_details[p][u], m.partially_resolved[p][u])
    THEN Raise("ValueError", "Permission is inconsistent with a previous CSV file")
    ELSE [ok |-> TRUE,
          permission_is_global |->
            [p \in DOMAIN m.permission_is_global \cup DOMAIN parsed.perm_is_global |->
                IF p \in DOMAIN parsed.perm_is_global THEN parsed.perm_is_global[p]
                ELSE m.permission_is_global[p]],
          known_user_types |-> m.known_user_types \cup Range(parsed.user_types),
          known_perms |-> m.known_perms \cup DOMAIN parsed.perm_is_global,
          partially_resolved |->
            [p \in DOMAIN m.partially_resolved \cup DOMAIN parsed.perm_is_global |->
                [u \in Seen(m, p) \cup (IF p \in DOMAIN parsed.perm_is_global
                                        THEN Range(parsed.user_types) ELSE {}) |->
                    IF u \in Seen(m, p) THEN m.partially_resolved[p][u]
                    ELSE parsed.perm_user_type_details[p][u]]],
          perm_order |->
            m.perm_order \o SelectSeq(parsed.perm_order,
                                      LAMBDA p : p \notin DOMAIN m.partially_resolved),
          type_order |->
            [p \in DOMAIN m.partially_resolved \cup DOMAIN parsed.perm_is_global |->
                (IF p \in DOMAIN m.type_order THEN m.type_order[p] ELSE <<>>)
                \o (IF p \in DOMAIN parsed.perm_is_global
                    THEN SelectSeq(Unique(parsed.user_types),
                                   LAMBDA u : u \notin Seen(m, p))
                    ELSE <<>>)]]

\* One iteration of "for file_path in file_paths": m is the state before it
MergeFile(m, file) == MergeParsed(m, _parse_csv(file))

\* The loop "for file_path in file_paths" from the i-th path on, an exception
\* ending it
RECURSIVE MergeFiles(_, _, _, _)
MergeFiles(m, file_paths, contents, i) ==
    IF i > Len(file_paths) \/ ~m.ok THEN m
    ELSE MergeFiles(MergeFile(m, contents[file_paths[i]]), file_paths, contents, i + 1)

\* The cells of the merged dict from the i-th permission on, in iteration order
RECURSIVE MergedCells(_, _)
MergedCells(m, i) ==
    IF i > Len(m.perm_order) THEN <<>>
    ELSE [j \in 1..Len(m.type_order[m.perm_order[i]]) |->
            <<m.perm_order[i], m.type_order[m.perm_order[i]][j]>>]
         \o MergedCells(m, i + 1)

\* The outcome of the body of the inner loop of lines 342-391 for every cell
Resolutions(m) ==
    [p \in DOMAIN m.partially_resolved |->
        [u \in DOMAIN m.partially_resolved[p] |->
            ResolveDetail(m.partially_resolved[p][u], m.permission_is_global[p])]]

\* lines 339-393 making the entry of a permission only when one of its cells
\* is stored (without lines 343-344)
ResolveMergedOnlyStored(m, cells, resolutions) ==
    IF \E i \in 1..Len(cells) : ~resolutions[cells[i][1]][cells[i][2]].ok
    THEN resolutions[cells[CHOOSE i \in 1..Len(cells) :
                        /\ ~resolutions[cells[i][1]][cells[i][2]].ok
                        /\ \A j \in 1..(i - 1) : resolutions[cells[j][1]][cells[j][2]].ok][1]]
                    [cells[CHOOSE i \in 1..Len(cells) :
                        /\ ~resolutions[cells[i][1]][cells[i][2]].ok
                        /\ \A j \in 1..(i - 1) : resolutions[cells[j][1]][cells[j][2]].ok][2]]
    ELSE [ok |-> TRUE,
          permission_lookup |->
            [p \in {q \in DOMAIN resolutions :
                        \E t \in DOMAIN resolutions[q] : ~resolutions[q][t].skipped} |->
                [u \in {t \in DOMAIN resolutions[p] : ~resolutions[p][t].skipped} |->
                    resolutions[p][u].evaluator]],
          permission_is_global |-> m.permission_is_global,
          known_user_types |-> m.known_user_types,
          known_perms |-> m.known_perms]

\* lines 339-393: the loops over the cells, in the order cells, stop at the
\* first exception; the cells that were not skipped are stored
ResolveMerged(m, cells, resolutions) ==
    IF \E i \in 1..Len(cells) : ~resolutions[cells[i][1]][cells[i][2]].ok
    THEN resolutions[cells[CHOOSE i \in 1..Len(cells) :
                        /\ ~resolutions[cells[i][1]][cells[i][2]].ok
                        /\ \A j \in 1..(i - 1) : resolutions[cells[j][1]][cells[j][2]].ok][1]]
                    [cells[CHOOSE i \in 1..Len(cells) :
                        /\ ~resolutions[cells[i][1]][cells[i][2]].ok
                        /\ \A j \in 1..(i - 1) : resolutions[cells[j][1]][cells[j][2]].ok][2]]
    ELSE [ok |-> TRUE,
          permission_lookup |->
            [p \in DOMAIN resolutions |->
                [u \in {t \in DOMAIN resolutions[p] : ~resolutions[p][t].skipped} |->
                    resolutions[p][u].evaluator]],
          permission_is_global |-> m.permission_is_global,
          known_user_types |-> m.known_user_types,
          known_perms |-> m.known_perms]

\* The merged files are resolved, unless the merge raised
ResolveFiles(m) ==
    IF ~m.ok THEN m ELSE ResolveMerged(m, MergedCells(m, 1), Resolutions(m))

\* The table _resolve_functions returns for file_paths, or the exception it
\* raises; contents maps each path to the content of its file
_resolve_functions(file_paths, contents) ==
    ResolveFiles(MergeFiles(NoFilesMerged, file_paths, contents, 1))

----------------------------------------------------------------------------
(* permissions.py: CSVPermissionsBackend *)

\* The users of the host: user.get_profile().user_type, None where
\* get_profile raises AttributeError (AnonymousUser)
Profiles == [anonymous |-> None, customer_user |-> "customer", staff_user |-> "staff"]

Users == DOMAIN Profiles

Objects == {NoObject, "object"}

UnknownPerm == AppLabel \o ".nonexistentperm_detail"

Denied(lookups) == [outcome |-> "False", lookups |-> lookups, calls |-> 0]

Unknown == [outcome |-> "LookupError", lookups |-> 0, calls |-> 0]

HasCell(self, perm, user_type) ==
    /\ perm \in DOMAIN self.permission_lookup
    /\ user_type \in DOMAIN self.permission_lookup[perm]

Decide(self, perm, user_type, user, obj) ==
    [outcome |-> Call(self.permission_lookup[perm][user_type], user, obj),
     lookups |-> 1, calls |-> 1]

\* has_perm with the strict checks placed before the look at the profile
has_perm_strict_first(self, strict, user, perm, obj) ==
    LET user_type == Profiles[user]
    IN IF strict /\ perm \notin self.known_perms THEN Unknown
       ELSE IF strict /\ user_type \notin self.known_user_types THEN Unknown
       ELSE IF user_type = None THEN Denied(0)
       ELSE IF ~HasCell(self, perm, user_type) THEN Denied(1)
       ELSE Decide(self, perm, user_type, user, obj)

\* has_perm without the strict check of the user type
has_perm_user_type_unchecked(self, strict, user, perm, obj) ==
    LET user_type == Profiles[user]
    IN IF user_type = None THEN Denied(0)
       ELSE IF strict /\ perm \notin self.known_perms THEN Unknown
       ELSE IF ~HasCell(self, perm, user_type) THEN Denied(1)
       ELSE Decide(self, perm, user_type, user, obj)

\* has_perm re-raising the KeyError of a missing cell as LookupError when strict
has_perm_strict_miss(self, strict, user, perm, obj) ==
    LET user_type == Profiles[user]
    IN IF user_type = None THEN Denied(0)
       ELSE IF strict /\ perm \notin self.known_perms THEN Unknown
       ELSE IF strict /\ user_type \notin self.known_user_types THEN Unknown
       ELSE IF ~HasCell(self, perm, user_type)
       THEN (IF strict THEN [Unknown EXCEPT !.lookups = 1] ELSE Denied(1))
       ELSE Decide(self, perm, user_type, user, obj)

\* has_perm with func(user, obj) inside the try block and a broad except
has_perm_swallows(self, strict, user, perm, obj) ==
    LET user_type == Profiles[user]
        decided == Decide(self, perm, user_type, user, obj)
    IN IF user_type = None THEN Denied(0)
       ELSE IF strict /\ perm \notin self.known_perms THEN Unknown
       ELSE IF strict /\ user_type \notin self.known_user_types THEN Unknown
       ELSE IF ~HasCell(self, perm, user_type) THEN Denied(1)
       ELSE IF decided.outcome \in {"True", "False"} THEN decided
       ELSE [decided EXCEPT !.outcome = "False"]

\* self.has_perm(user, perm, obj) with settings.CSV_PERMISSIONS_STRICT = strict:
\* the outcome ("True", "False" or the exception type), the number of reads of
\* self.permission_lookup and the number of calls of a decision function
has_perm(self, strict, user, perm, obj) ==
    LET user_type == Profiles[user]
    IN IF user_type = None THEN Denied(0)
       ELSE IF strict /\ perm \notin self.known_perms THEN Unknown
       ELSE IF strict /\ user_type \notin self.known_user_types THEN Unknown
       ELSE IF ~HasCell(self, perm, user_type) THEN Denied(1)
       ELSE Decide(self, perm, user_type, user, obj)

\* self.is_global_perm(perm): the flag ("True" or "False") or the type of the
\* exception raised
is_global_perm(self, perm) ==
    IF perm \in DOMAIN self.permission_is_global
    THEN (IF self.permission_is_global[perm] THEN "True" ELSE "False")
    ELSE "ValueError"

NoBackend == Raise("none", "no backend constructed")

NoCall == [called |-> FALSE]

\* The key lru_cache makes of the arguments of _resolve_functions
CacheKey(file_paths, resolve_rule_name) == <<file_paths, resolve_rule_name>>

\* lru_cache: a hit moves the entry to the most recent end
CacheHit(c, i) ==
    SubSeq(c, 1, i - 1) \o SubSeq(c, i + 1, Len(c)) \o <<c[i]>>

\* lru_cache: a result is stored, the least recent entry evicted when full
CacheStore(c, key, value) ==
    (IF Len(c) >= LruMaxSize THEN Tail(c) ELSE c) \o <<[key |-> key, value |-> value]>>

----------------------------------------------------------------------------
(* Actions *)

\* A call of the function lru_cache wraps: the entry of key when there is one,
\* else the result computed, which is stored unless it is an exception
CachedCall(c, key, hits, computed) ==
    IF hits # {}
    THEN [value |-> c[CHOOSE i \in hits : TRUE].value,
          cache |-> CacheHit(c, CHOOSE i \in hits : TRUE)]
    ELSE [value |-> computed,
          cache |-> IF computed.ok THEN CacheStore(c, key, computed) ELSE c]

\* CSVPermissionsBackend(): django constructs a backend for a permission check
NewBackend ==
    /\ \E call \in {CachedCall(cache, CacheKey(settings.paths, None),
                               {i \in 1..Len(cache) :
                                    cache[i].key = CacheKey(settings.paths, None)},
                               _resolve_functions(settings.paths, files))} :
        /\ backend' = call.value
        /\ cache' = call.cache
    /\ last' = NoCall
    /\ UNCHANGED <<files, settings, threads, history>>

\* backend.has_perm(user, perm, obj) while settings.CSV_PERMISSIONS_STRICT,
\* which has_perm reads at each call, is strict
HasPerm(strict, user, perm, obj) ==
    /\ backend.ok
    /\ last' = [called |-> TRUE, user |-> user, perm |-> perm, obj |-> obj,
                strict |-> strict]
               @@ has_perm(backend, strict, user, perm, obj)
    /\ UNCHANGED <<files, settings, cache, backend, threads, history>>

\* user.has_perm(perm, obj) reaching the backend, for a permission of the
\* table or one that is in no file
CheckPermission ==
    /\ backend.ok
    /\ \E strict \in BOOLEAN, user \in Users, obj \in Objects :
        \E perm \in backend.known_perms \cup {UnknownPerm} :
            HasPerm(strict, user, perm, obj)

\* backend.is_global_perm(perm), for a permission of the table or one that is
\* in no file; last.called is for has_perm only
AskIsGlobal ==
    /\ backend.ok
    /\ \E perm \in backend.known_perms \cup {UnknownPerm} :
        last' = [called |-> FALSE, asked |-> TRUE, perm |-> perm,
                 outcome |-> is_global_perm(backend, perm)]
    /\ UNCHANGED <<files, settings, cache, backend, threads, history>>

Next ==
    \/ NewBackend
    \/ CheckPermission
    \/ AskIsGlobal

----------------------------------------------------------------------------
(* Request threads: CSVPermissionsBackend() step by step *)

Threads == {"t1", "t2"}

Idle == [pc |-> "idle"]

NoHistory == [edits |-> 0, built |-> EmptyDict, failed |-> {}]

\* lru_cache without its lookup: every call runs the function
VisibleNever(c, key, building) == {}

\* A cache whose entry is made when the build starts and filled while it runs
VisibleInProgress(c, key, building) ==
    {c[i].value : i \in {j \in 1..Len(c) : c[j].key = key}} \cup building

\* A cache that looks at the files: an entry is found only while the files
\* of its key still give its table
VisibleWhileUnchanged(c, key, building) ==
    {c[i].value : i \in {j \in 1..Len(c) :
        c[j].key = key /\ c[j].value = _resolve_functions(key[1], files)}}

\* lru_cache: the results a lookup of key finds in the cache; building, the
\* tables of the calls still running, are locals of those calls
Visible(c, key, building) ==
    {c[i].value : i \in {j \in 1..Len(c) : c[j].key = key}}

\* lru_cache keeping what the function raised like a result
CacheAfterCallKeepsRaised(c, key, result) ==
    IF \E i \in 1..Len(c) : c[i].key = key THEN c
    ELSE CacheStore(c, key, result)

\* lru_cache after the function returned result or raised: an exception leaves
\* the cache alone, and so does a key another call has stored meanwhile
CacheAfterCall(c, key, result) ==
    IF ~result.ok THEN c
    ELSE IF \E i \in 1..Len(c) : c[i].key = key THEN c
    ELSE CacheStore(c, key, result)

\* lru_cache: the found entry of key, if any, becomes the most recent
CacheAfterLookup(c, key, found) ==
    IF found # {} /\ \E i \in 1..Len(c) : c[i].key = key
    THEN CacheHit(c, CHOOSE i \in 1..Len(c) : c[i].key = key)
    ELSE c

\* The tables, as far as they are merged, of the calls for key that are running
BuildsInProgress(key) ==
    {ResolveFiles(threads[u].m) :
        u \in {v \in Threads : threads[v].pc = "building" /\ threads[v].key = key}}

\* The locals of a call of _resolve_functions that starts, with what the
\* history says of its key when it starts
Started(key) ==
    [pc |-> "building", key |-> key, i |-> 1, m |-> NoFilesMerged, self |-> NoBackend,
     opened |-> 0,
     memo |-> key \in DOMAIN history.built,
     retry |-> key \in history.failed]

\* The call of _resolve_functions of a thread: found is what the lookup finds
AfterLookup(key, found) ==
    IF found # {}
    THEN [Started(key) EXCEPT !.pc = "returned", !.self = CHOOSE table \in found : TRUE]
    ELSE Started(key)

\* The history after a call for key ended with result
Recorded(h, key, result) ==
    IF ~result.ok THEN [h EXCEPT !.failed = @ \cup {key}]
    ELSE IF key \in DOMAIN h.built THEN h
    ELSE [h EXCEPT !.built = [k \in DOMAIN h.built \cup {key} |->
                                IF k = key THEN result ELSE h.built[k]]]

\* The locals of a call after one more iteration of "for file_path in
\* file_paths" left the merge as merged
AfterFile(thread, merged) ==
    IF merged.ok
    THEN [thread EXCEPT !.m = merged, !.i = @ + 1, !.opened = @ + 1]
    ELSE [thread EXCEPT !.pc = "raised", !.self = merged, !.opened = @ + 1]

\* The thread after _resolve_functions returned table or raised
AfterBuild(thread, table) ==
    [thread EXCEPT !.pc = IF table.ok THEN "returned" ELSE "raised", !.self = table]

\* Thread t constructs a CSVPermissionsBackend: the lookup of lru_cache
ThreadCall(t) ==
    /\ threads[t].pc # "building"
    /\ \E key \in {CacheKey(settings.paths, None)} :
        \E found \in {Visible(cache, key, BuildsInProgress(key))} :
            /\ threads' = [threads EXCEPT ![t] = AfterLookup(key, found)]
            /\ cache' = CacheAfterLookup(cache, key, found)
    /\ UNCHANGED <<files, settings, backend, last, history>>

\* Thread t parses and merges the next file of its call
ThreadMerge(t) ==
    /\ threads[t].pc = "building"
    /\ threads[t].i <= Len(threads[t].key[1])
    /\ \E merged \in {MergeFile(threads[t].m, files[threads[t].key[1][threads[t].i]])} :
        /\ threads' = [threads EXCEPT ![t] = AfterFile(threads[t], merged)]
        /\ cache' = IF merged.ok THEN cache
                    ELSE CacheAfterCall(cache, threads[t].key, merged)
        /\ history' = IF merged.ok THEN history
                      ELSE Recorded(history, threads[t].key, merged)
    /\ UNCHANGED <<files, settings, backend, last>>

\* Thread t resolves the merged cells, _resolve_functions returns or raises
\* and lru_cache stores what it returned
ThreadResolve(t) ==
    /\ threads[t].pc = "building"
    /\ threads[t].i > Len(threads[t].key[1])
    /\ \E table \in {ResolveFiles(threads[t].m)} :
        /\ threads' = [threads EXCEPT ![t] = AfterBuild(threads[t], table)]
        /\ cache' = CacheAfterCall(cache, threads[t].key, table)
        /\ history' = Recorded(history, threads[t].key, table)
    /\ UNCHANGED <<files, settings, backend, last>>

----------------------------------------------------------------------------
(* Initial states: the CSV files of the deployment and its settings *)

PathNames == <<"a.csv", "b.csv", "c.csv">>

UserTypeColumns == {<<"customer">>, <<"staff">>}

Row(model, action, is_global, cells) == <<model, AppLabel, action, is_global>> \o cells

\* Cell texts of the files that are merged
MergeTexts == {"", "yes", "all"}

\* Cell texts of a file with a single cell
CellTexts ==
    {"", "yes", "no", "all", "own", "own:", "own: ", "own: model_a", "custom:",
     "custom: own_model_a_or_model_b", "custom: given_object", "custom: missing",
     "maybe"}

MergeRows(user_types) ==
    {Row("TestModelA", action, is_global, cells) :
        action \in {"foo", "detail"}, is_global \in {"yes", "no"},
        cells \in [1..Len(user_types) -> MergeTexts]}

CellRows ==
    {Row(model, action, is_global, <<text>>) :
        model \in {"TestModelA", ""}, action \in {"foo", "detail", "list"},
        is_global \in {"yes", "no"}, text \in CellTexts}

File(user_types, rows) == [fieldnames |-> FixedColumns \o user_types, rows |-> rows]

\* The files with k rows of MergeRows
FilesOfRows(k) ==
    UNION {{File(user_types, rows) : rows \in [1..k -> MergeRows(user_types)]} :
            user_types \in UserTypeColumns}

\* The deployment lists the files of list, in this order, in CSV_PERMISSIONS_PATHS
Deployed(list) ==
    /\ files = [path \in {PathNames[i] : i \in 1..Len(list)} |->
                    list[CHOOSE i \in 1..Len(list) : PathNames[i] = path]]
    /\ settings = [paths |-> SubSeq(PathNames, 1, Len(list))]
    /\ cache = <<>>
    /\ backend = NoBackend
    /\ last = NoCall
    /\ threads = [t \in Threads |-> Idle]
    /\ history = NoHistory

\* A single file with a single cell
InitCell ==
    \E row \in CellRows : Deployed(<<File(<<"customer">>, <<row>>)>>)

\* One file of at most MaxRows rows
InitOneFile ==
    \E k \in 0..MaxRows : \E file \in FilesOfRows(k) : Deployed(<<file>>)

\* Two files of at most MaxRows rows in all
InitTwoFiles ==
    \E k1 \in 0..MaxRows : \E k2 \in 0..(MaxRows - k1) :
        \E file1 \in FilesOfRows(k1), file2 \in FilesOfRows(k2) :
            Deployed(<<file1, file2>>)

\* The files of three-file deployments: one cell, or no row at all
ShortFiles ==
    {File(<<"customer">>, <<Row("TestModelA", "foo", is_global, <<text>>)>>) :
        is_global \in {"yes", "no"}, text \in {"", "yes", "all"}}
    \cup {File(<<"customer">>, <<>>)}

\* Three files of at most one row each
InitThreeFiles ==
    \E file1 \in ShortFiles, file2 \in ShortFiles, file3 \in ShortFiles :
        Deployed(<<file1, file2, file3>>)

\* Lines of a file as csv.reader splits them: a line without any cell, rows of
\* empty cells (fewer cells than the header, as many, more), comment lines,
\* and a permission with one cell and with two
FormatRows ==
    {<<>>,
     <<"">>,
     <<"", "", "", "", "">>,
     <<"", "", "", "", "", "", "">>,
     <<"# TestModelA", AppLabel, "foo", "yes", "yes">>,
     <<"// blah blah blah">>,
     <<"; blah blah blah">>,
     Row("TestModelA", "foo", "yes", <<"yes">>),
     Row("TestModelA", "foo", "yes", <<"yes", "">>)}

FormatHeaders == {<<"customer">>, <<"customer", "customer">>}

\* One file of at most MaxRows lines of FormatRows
InitFormat ==
    \E k \in 0..MaxRows : \E rows \in [1..k -> FormatRows] :
        \E user_types \in FormatHeaders : Deployed(<<File(user_types, rows)>>)

Init == InitCell \/ InitOneFile \/ InitTwoFiles \/ InitThreeFiles \/ InitFormat

Spec == Init /\ [][Next]_vars

\* The deployments of Init while backends are constructed and nothing is asked
BuildNext == NewBackend

BuildSpec == Init /\ [][BuildNext]_vars

----------------------------------------------------------------------------
(* The registry: request threads constructing backends while the files and *)
(* the settings of the process change                                      *)

\* A permission that resolves, the same for another user type, one with the
\* other flag, one that does not resolve, and a file without rows
RegistryFiles ==
    {File(<<"customer">>, <<Row("TestModelA", "foo", "yes", <<"yes">>)>>),
     File(<<"staff">>, <<Row("TestModelA", "foo", "yes", <<"yes">>)>>),
     File(<<"customer">>, <<Row("TestModelA", "foo", "no", <<"all">>)>>),
     File(<<"customer">>, <<Row("TestModelA", "foo", "yes", <<"all">>)>>),
     File(<<"customer">>, <<>>)}

RegistryPaths == {<<"a.csv">>, <<"a.csv", "b.csv">>}

RegistryInit ==
    /\ files \in [{"a.csv", "b.csv"} -> RegistryFiles]
    /\ settings \in [paths : RegistryPaths]
    /\ cache = <<>>
    /\ backend = NoBackend
    /\ last = NoCall
    /\ threads = [t \in Threads |-> Idle]
    /\ history = NoHistory

\* The file at path is rewritten
EditFile ==
    /\ history.edits < MaxEdits
    /\ \E path \in DOMAIN files, file \in RegistryFiles :
        /\ file # files[path]
        /\ files' = [files EXCEPT ![path] = file]
    /\ history' = [history EXCEPT !.edits = @ + 1]
    /\ UNCHANGED <<settings, cache, backend, last, threads>>

\* settings.CSV_PERMISSIONS_PATHS is overridden
SetPaths ==
    /\ \E paths \in RegistryPaths :
        /\ paths # settings.paths
        /\ settings' = [settings EXCEPT !.paths = paths]
    /\ UNCHANGED <<files, cache, backend, last, threads, history>>

RegistryNext ==
    \/ \E t \in Threads : ThreadCall(t)
    \/ \E t \in Threads : ThreadMerge(t)
    \/ \E t \in Threads : ThreadResolve(t)
    \/ EditFile
    \/ SetPaths

RegistrySpec == RegistryInit /\ [][RegistryNext]_vars

----------------------------------------------------------------------------
(* The registry when the same two files are listed in either order *)

\* A permission that resolves, the same for another user type, and the same
\* with the other flag
IdentityFiles ==
    {File(<<"customer">>, <<Row("TestModelA", "foo", "yes", <<"yes">>)>>),
     File(<<"staff">>, <<Row("TestModelA", "foo", "yes", <<"yes">>)>>),
     File(<<"customer">>, <<Row("TestModelA", "foo", "no", <<"all">>)>>)}

IdentityPaths == {<<"a.csv", "b.csv">>, <<"b.csv", "a.csv">>}

IdentityInit ==
    /\ files \in [{"a.csv", "b.csv"} -> IdentityFiles]
    /\ settings \in [paths : IdentityPaths]
    /\ cache = <<>>
    /\ backend = NoBackend
    /\ last = NoCall
    /\ threads = [t \in Threads |-> Idle]
    /\ history = NoHistory

\* The file at path is rewritten, its path staying the same
RewriteSource ==
    /\ history.edits < MaxEdits
    /\ \E path \in DOMAIN files, file \in IdentityFiles :
        /\ file # files[path]
        /\ files' = [files EXCEPT ![path] = file]
    /\ history' = [history EXCEPT !.edits = @ + 1]
    /\ UNCHANGED <<settings, cache, backend, last, threads>>

\* settings.CSV_PERMISSIONS_PATHS is overridden with the same paths in the
\* other order
ReorderPaths ==
    /\ \E paths \in IdentityPaths :
        /\ paths # settings.paths
        /\ settings' = [settings EXCEPT !.paths = paths]
    /\ UNCHANGED <<files, cache, backend, last, threads, history>>

IdentityNext ==
    \/ \E t \in Threads : ThreadCall(t)
    \/ \E t \in Threads : ThreadMerge(t)
    \/ \E t \in Threads : ThreadResolve(t)
    \/ RewriteSource
    \/ ReorderPaths

IdentitySpec == IdentityInit /\ [][IdentityNext]_vars

----------------------------------------------------------------------------
(* Vocabulary of the properties *)

\* CSVPermissionsBackend() has run (and returned or raised)
Constructed == backend # NoBackend

\* The user type of the user of the last has_perm call
LastUserType == Profiles[last.user]

\* The user types named in the header of some file of CSV_PERMISSIONS_PATHS
HeaderUserTypes ==
    UNION {Range(SubSeq(files[path].fieldnames, 5, Len(files[path].fieldnames))) :
            path \in Range(settings.paths)}

\* Some file of CSV_PERMISSIONS_PATHS has a row for perm and a column for user_type
SomeSourceHasCell(perm, user_type) ==
    \E path \in Range(settings.paths) :
        LET parsed == _parse_csv(files[path])
        IN /\ parsed.ok
           /\ perm \in DOMAIN parsed.perm_user_type_details
           /\ user_type \in DOMAIN parsed.perm_user_type_details[perm]

\* The deployment is a single file with a single row and a single user type column
OneCell ==
    /\ Len(settings.paths) = 1
    /\ Len(files[settings.paths[1]].fieldnames) = 5
    /\ Len(files[settings.paths[1]].rows) = 1
    /\ Len(files[settings.paths[1]].rows[1]) = 5

TheRow == files[settings.paths[1]].rows[1]

CellUserType == files[settings.paths[1]].fieldnames[5]

CellText == TheRow[5]

CellIsGlobal == TheRow[4] = "yes"

CellPerm ==
    IF TheRow[1] = "" THEN AppLabel \o "." \o TheRow[3]
    ELSE AppLabel \o "." \o TheRow[3] \o "_" \o ModelNames[TheRow[1]]

\* The row of the single cell is a well-formed permission: its flag is the one
\* a predefined action expects, and it names a model unless it is global
CellRowValid ==
    /\ TheRow[1] \in DOMAIN ModelNames \cup {""}
    /\ TheRow[4] \in {"yes", "no"}
    /\ TheRow[3] \in {"list", "create", "add"} => CellIsGlobal
    /\ TheRow[3] \in {"detail", "change", "update", "delete"} => ~CellIsGlobal
    /\ TheRow[1] = "" => CellIsGlobal

\* The last has_perm call asked for the single cell
LastCallOnCell ==
    /\ last.called
    /\ LastUserType = CellUserType
    /\ last.perm = CellPerm

\* The single cell holds a decision function with these two results
CellDecides(without_object, with_object) ==
    /\ backend.ok
    /\ HasCell(backend, CellPerm, CellUserType)
    /\ \A user \in Users :
        /\ Call(backend.permission_lookup[CellPerm][CellUserType], user, NoObject)
                = without_object
        /\ Call(backend.permission_lookup[CellPerm][CellUserType], user, "object")
                = with_object
    /\ LastCallOnCell =>
        /\ last.calls = 1
        /\ last.outcome = IF last.obj = NoObject THEN without_object ELSE with_object

----------------------------------------------------------------------------
(* Properties *)

\* C1: has_perm returns False, raises nothing and never reads the lookup table
\* for a user without a user type (anonymous), whatever the permission, the
\* object and the strict setting.
AnonymousDenied ==
    (last.called /\ LastUserType = None) =>
        /\ last.outcome = "False"
        /\ last.lookups = 0
        /\ last.calls = 0

\* An anonymous user asked, in strict mode, for a permission that is in no file
AnonymousAskedUnknownStrict ==
    /\ last.called
    /\ last.user = "anonymous"
    /\ last.strict
    /\ last.perm \notin backend.known_perms
    /\ last.obj # NoObject

\* C2: for a user with a user type, when the permission is not a known
\* permission or the user type is in no file's header, has_perm raises
\* LookupError in strict mode and returns False otherwise.
UnknownStrictOrDenied ==
    (/\ last.called
     /\ LastUserType # None
     /\ \/ last.perm \notin backend.known_perms
        \/ LastUserType \notin HeaderUserTypes
        \/ LastUserType \notin backend.known_user_types) =>
        last.outcome = IF last.strict THEN "LookupError" ELSE "False"

\* A strict call for a known permission by a user whose type is in no header
UnknownUserTypeStrict ==
    /\ last.called
    /\ last.strict
    /\ LastUserType # None
    /\ last.perm \in backend.known_perms
    /\ LastUserType \notin HeaderUserTypes
    /\ last.outcome = "LookupError"

\* C3: when the permission and the user type are both known but the cell is
\* not in the table (no file has a row of the permission with a column of the
\* user type), has_perm returns False, strict or not, calling no decision
\* function.
MissingCellDenied ==
    (/\ last.called
     /\ LastUserType # None
     /\ last.perm \in backend.known_perms
     /\ LastUserType \in backend.known_user_types
     /\ \/ ~SomeSourceHasCell(last.perm, LastUserType)
        \/ ~HasCell(backend, last.perm, LastUserType)) =>
        /\ last.outcome = "False"
        /\ last.calls = 0

\* A strict call for a cell that no file has, permission and user type known
MissingCellStrict ==
    /\ last.called
    /\ last.strict
    /\ LastUserType \in HeaderUserTypes
    /\ last.perm \in backend.known_perms
    /\ ~SomeSourceHasCell(last.perm, LastUserType)
    /\ last.outcome = "False"

\* C4: when the cell is in the table, has_perm calls its decision function
\* once with the user and the object and returns what it returns or raises
\* what it raises.
HitReturnsDecision ==
    (/\ last.called
     /\ LastUserType # None
     /\ HasCell(backend, last.perm, LastUserType)) =>
        /\ last.calls = 1
        /\ last.lookups = 1
        /\ last.outcome =
            Call(backend.permission_lookup[last.perm][LastUserType], last.user, last.obj)

\* A decision function raised and has_perm let it through
DecisionRaised ==
    /\ last.called
    /\ HasCell(backend, last.perm, LastUserType)
    /\ last.calls = 1
    /\ last.outcome = "RuntimeError"

\* C5: a cell "all" of a global permission makes the construction raise, at the
\* resolution of the cell when the row is a well-formed permission; on a local
\* permission the cell resolves to a decision function that raises without an
\* object and returns True with one.
AllRequiresObject ==
    (Constructed /\ OneCell /\ CellText = "all") =>
        /\ CellIsGlobal =>
            /\ ~backend.ok
            /\ backend.type = "RuntimeError"
            /\ CellRowValid =>
                backend.tag = "'all' cannot be used with global permissions."
        /\ (~CellIsGlobal /\ CellRowValid) => CellDecides("RuntimeError", "True")

\* has_perm returned True for an object through a cell "all"
AllGranted ==
    /\ OneCell
    /\ CellText = "all"
    /\ ~CellIsGlobal
    /\ LastCallOnCell
    /\ last.obj # NoObject
    /\ last.outcome = "True"

\* C6: a cell "yes" of a local permission makes the construction raise, at the
\* resolution of the cell when the row is a well-formed permission; on a global
\* permission the cell resolves to a decision function that returns True
\* without an object and raises with one.
YesRefusesObject ==
    (Constructed /\ OneCell /\ CellText = "yes") =>
        /\ ~CellIsGlobal =>
            /\ ~backend.ok
            /\ backend.type = "RuntimeError"
            /\ CellRowValid =>
                backend.tag = "'yes' cannot be used with object-level permissions."
        /\ (CellIsGlobal /\ CellRowValid) => CellDecides("True", "RuntimeError")

\* has_perm returned True without an object through a cell "yes"
YesGranted ==
    /\ OneCell
    /\ CellText = "yes"
    /\ CellIsGlobal
    /\ LastCallOnCell
    /\ last.obj = NoObject
    /\ last.outcome = "True"

\* C7: an empty cell, of a global or of a local permission, resolves to a
\* decision function that returns False with and without an object.
EmptyAlwaysFalse ==
    (Constructed /\ OneCell /\ CellText = "" /\ CellRowValid) =>
        CellDecides("False", "False")

\* has_perm called the decision function of an empty cell of a local
\* permission with an object
EmptyDeniedObject ==
    /\ OneCell
    /\ CellText = ""
    /\ ~CellIsGlobal
    /\ LastCallOnCell
    /\ last.obj # NoObject
    /\ last.calls = 1
    /\ last.outcome = "False"

\* C8: a cell "no" is stored in the table with a decision function that
\* returns False with and without an object.
NoAlwaysFalse ==
    (Constructed /\ OneCell /\ CellText = "no" /\ CellRowValid) =>
        CellDecides("False", "False")

\* C9: a cell whose text is no access level is stored in the table with a
\* decision function that raises NotImplementedError, so has_perm raises it.
UnrecognisedRaises ==
    (OneCell /\ CellText = "maybe" /\ CellRowValid /\ LastCallOnCell) =>
        /\ HasCell(backend, CellPerm, CellUserType)
        /\ last.outcome = "NotImplementedError"

\* C10: when a file builds on its own, listing a second file of the same
\* content raises nothing and gives a table with the same outcome of has_perm
\* for every user, permission, object and strict setting.
DuplicateSourceSameTable ==
    (/\ Constructed
     /\ Len(settings.paths) = 2
     /\ files[settings.paths[1]] = files[settings.paths[2]]
     /\ _resolve_functions(<<settings.paths[1]>>, files).ok) =>
        LET alone == _resolve_functions(<<settings.paths[1]>>, files)
        IN /\ backend.ok
           /\ backend.known_perms = alone.known_perms
           /\ \A strict \in BOOLEAN, user \in Users, obj \in Objects :
                \A perm \in alone.known_perms \cup {UnknownPerm} :
                    has_perm(backend, strict, user, perm, obj)
                        = has_perm(alone, strict, user, perm, obj)
           /\ last.called =>
                last.outcome =
                    has_perm(alone, last.strict, last.user, last.perm, last.obj).outcome

\* has_perm returned True from the table of two files of the same content
DuplicateSourceGranted ==
    /\ Len(settings.paths) = 2
    /\ files[settings.paths[1]] = files[settings.paths[2]]
    /\ files[settings.paths[1]].rows # <<>>
    /\ last.called
    /\ last.outcome = "True"

----------------------------------------------------------------------------
(* Vocabulary of the properties of the merge *)

\* The positions of CSV_PERMISSIONS_PATHS
Sources == 1..Len(settings.paths)

\* What _parse_csv makes of the files of CSV_PERMISSIONS_PATHS from the i-th on
RECURSIVE ParsedFrom(_)
ParsedFrom(i) ==
    IF i > Len(settings.paths) THEN <<>>
    ELSE <<_parse_csv(files[settings.paths[i]])>> \o ParsedFrom(i + 1)

\* What _parse_csv makes of each file of CSV_PERMISSIONS_PATHS
ParsedSources == ParsedFrom(1)

\* In what follows parsed is ParsedSources

AllSourcesParse(parsed) == \A i \in Sources : parsed[i].ok

\* The i-th and the j-th file give some permission different flags
FlagsDiffer(parsed, i, j) ==
    \E p \in DOMAIN parsed[i].perm_is_global \cap DOMAIN parsed[j].perm_is_global :
        parsed[i].perm_is_global[p] # parsed[j].perm_is_global[p]

\* The text the i-th file has for the cell <<permission, user type>>
Text(parsed, i, cell) == parsed[i].perm_user_type_details[cell[1]][cell[2]].access_level

\* The cells <<permission, user type>> the i-th file defines
CellsOf(parsed, i) ==
    {cell \in (DOMAIN parsed[i].perm_is_global) \X Range(parsed[i].user_types) :
        Text(parsed, i, cell) # None}

SharedCells(parsed, i, j) == CellsOf(parsed, i) \cap CellsOf(parsed, j)

\* Exactly one of the two files has the empty string in the cell
OneEmpty(parsed, i, j, cell) ==
    /\ Text(parsed, i, cell) # Text(parsed, j, cell)
    /\ Text(parsed, i, cell) = "" \/ Text(parsed, j, cell) = ""

\* The two files have different non-empty texts in the cell
BothDiffer(parsed, i, j, cell) ==
    /\ Text(parsed, i, cell) # Text(parsed, j, cell)
    /\ Text(parsed, i, cell) # ""
    /\ Text(parsed, j, cell) # ""

\* The construction raised one of the two ValueErrors of the merge
ConflictRaised ==
    /\ ~backend.ok
    /\ backend.type = "ValueError"
    /\ backend.tag \in {"'Is Global' is inconsistent with a previous CSV file",
                        "Permission is inconsistent with a previous CSV file"}

----------------------------------------------------------------------------
(* Properties of the merge *)

\* C11: when every listed file parses and two of them, anywhere in the list,
\* give the same permission different Is Global flags, the construction raises
\* the ValueError of an inconsistency and no table is made, whatever the order
\* of the files, the other files and the cell texts.
GlobalFlagConflictRaises ==
    \A parsed \in {ParsedSources} :
       (/\ Constructed
        /\ Len(settings.paths) >= 2
        /\ AllSourcesParse(parsed)
        /\ \E i \in Sources, j \in Sources : FlagsDiffer(parsed, i, j)) =>
            ConflictRaised

\* The first and the third of three files disagree on a flag, the second
\* agrees with the first, and the construction raised for the flag
FlagConflictAcrossThird ==
    \E parsed \in {ParsedSources} :
       /\ Constructed
       /\ Len(settings.paths) = 3
       /\ AllSourcesParse(parsed)
       /\ FlagsDiffer(parsed, 1, 3)
       /\ ~FlagsDiffer(parsed, 1, 2)
       /\ SharedCells(parsed, 1, 2) # {}
       /\ \A cell \in SharedCells(parsed, 1, 2) :
            Text(parsed, 1, cell) = Text(parsed, 2, cell)
       /\ ~backend.ok
       /\ backend.tag = "'Is Global' is inconsistent with a previous CSV file"

\* C12: two files that agree on the flags and whose shared cells are equal or
\* have exactly one empty text merge without an inconsistency error, and the
\* table holds, for a cell with one empty text, the decision function of the
\* non-empty text.
EmptyCellMerges ==
    \A parsed \in {ParsedSources} :
       (/\ Constructed
        /\ Len(settings.paths) = 2
        /\ AllSourcesParse(parsed)
        /\ ~FlagsDiffer(parsed, 1, 2)
        /\ \A cell \in SharedCells(parsed, 1, 2) : ~BothDiffer(parsed, 1, 2, cell)
        /\ \E cell \in SharedCells(parsed, 1, 2) : OneEmpty(parsed, 1, 2, cell)) =>
            /\ ~ConflictRaised
            /\ backend.ok =>
                \A cell \in SharedCells(parsed, 1, 2) :
                    (/\ OneEmpty(parsed, 1, 2, cell)
                     /\ HasCell(backend, cell[1], cell[2])) =>
                        backend.permission_lookup[cell[1]][cell[2]].level # "no"

\* C13: when every listed file parses and two of them have different non-empty
\* texts in the same cell, the construction raises the ValueError of an
\* inconsistency and no table is made.
DifferentTextsConflict ==
    \A parsed \in {ParsedSources} :
       (/\ Constructed
        /\ Len(settings.paths) >= 2
        /\ AllSourcesParse(parsed)
        /\ \E i \in Sources, j \in Sources :
            \E cell \in SharedCells(parsed, i, j) : BothDiffer(parsed, i, j, cell)) =>
            ConflictRaised

\* Two files agree on the flags, differ in a cell by two non-empty texts, and
\* the construction raised for the cell
TextConflictRaised ==
    \E parsed \in {ParsedSources} :
       /\ Constructed
       /\ Len(settings.paths) = 2
       /\ AllSourcesParse(parsed)
       /\ ~FlagsDiffer(parsed, 1, 2)
       /\ \E cell \in SharedCells(parsed, 1, 2) : BothDiffer(parsed, 1, 2, cell)
       /\ ~backend.ok
       /\ backend.tag = "Permission is inconsistent with a previous CSV file"

----------------------------------------------------------------------------
(* Properties of is_global_perm *)

\* The last call on the backend was is_global_perm
LastAsked == "asked" \in DOMAIN last

\* C17: is_global_perm returns the flag recorded for a permission of the table
\* and raises LookupError for a permission that is not in it.
IsGlobalOrLookupError ==
    LastAsked =>
        last.outcome =
            IF last.perm \in DOMAIN backend.permission_is_global
            THEN (IF backend.permission_is_global[last.perm] THEN "True" ELSE "False")
            ELSE "LookupError"

----------------------------------------------------------------------------
(* Properties of _parse_csv *)

\* The header of the file names a user type twice
DuplicateUserType(file) ==
    \E i \in 5..Len(file.fieldnames), j \in 5..Len(file.fieldnames) :
        /\ i # j
        /\ file.fieldnames[i] # ""
        /\ file.fieldnames[i] = file.fieldnames[j]

\* C18: a file whose header names the same user type in two columns makes
\* the construction raise the error of a malformed file; no table is made.
DuplicateHeaderFails ==
    (/\ Constructed
     /\ \E path \in Range(settings.paths) : DuplicateUserType(files[path])) =>
        /\ ~backend.ok
        /\ backend.type = "RuntimeError"

\* Every cell of the line is empty or blank, however many cells there are
EntirelyEmpty(row) == \A i \in 1..Len(row) : Strip(row[i]) = ""

\* The first cell of the line starts with "#", "//" or ";"
CommentedOut(row) ==
    /\ row # <<>>
    /\ \/ StartsWith(Strip(row[1]), "#")
       \/ StartsWith(Strip(row[1]), "//")
       \/ StartsWith(Strip(row[1]), ";")

\* The loop body for row raises nothing and leaves the two dicts as they are in acc
LeavesNoEntry(acc, fieldnames, row) ==
    /\ ParseRow(acc, fieldnames, row).ok
    /\ ParseRow(acc, fieldnames, row).perm_is_global = acc.perm_is_global
    /\ ParseRow(acc, fieldnames, row).perm_user_type_details = acc.perm_user_type_details

\* The state of the loop of _parse_csv over file when it comes to the i-th row
BeforeRow(file, i) ==
    ParseRows(NoRowsParsed, file.fieldnames, SubSeq(file.rows, 1, i - 1), 1)

\* C19: _parse_csv skips, raising nothing and making no entry, every row that
\* is entirely empty, with as many cells as the header, fewer or more, and
\* every row whose first cell starts with "#", "//" or ";".
SkippedRowsLeaveNoEntry ==
    Constructed =>
        \A path \in Range(settings.paths) :
            \A i \in 1..Len(files[path].rows) :
                (/\ \/ EntirelyEmpty(files[path].rows[i])
                    \/ CommentedOut(files[path].rows[i])
                 /\ BeforeRow(files[path], i).ok) =>
                    LeavesNoEntry(BeforeRow(files[path], i), files[path].fieldnames,
                                  files[path].rows[i])

\* A line the code passes over: no cell at all, empty cells up to the length
\* of the header, or a first cell starting with "#" or "//"
IgnoredLine(fieldnames, row) ==
    \/ EntirelyEmpty(row) /\ Len(row) <= Len(fieldnames)
    \/ /\ row # <<>>
       /\ StartsWith(Strip(row[1]), "#") \/ StartsWith(Strip(row[1]), "//")

\* C20: a file with a valid header and nothing after it makes the construction
\* raise "Empty permissions file"; a file whose lines after the header are all
\* blank lines or comment lines builds a table without permissions.
OnlyHeaderIsEmpty ==
    (Constructed /\ Len(settings.paths) = 1) =>
        /\ files[settings.paths[1]].rows = <<>> =>
            backend = Raise("RuntimeError", "Empty permissions file")
        /\ (/\ files[settings.paths[1]].rows # <<>>
            /\ \A i \in 1..Len(files[settings.paths[1]].rows) :
                IgnoredLine(files[settings.paths[1]].fieldnames,
                            files[settings.paths[1]].rows[i])) =>
            /\ backend.ok
            /\ backend.known_perms = {}

----------------------------------------------------------------------------
(* Properties of the registry (RegistrySpec) *)

\* Thread t has called _resolve_functions
Called(t) == threads[t].pc # "idle"

\* The call of thread t has ended
Ended(t) == threads[t].pc \in {"returned", "raised"}

\* The keys of the entries of the cache
CachedKeys == {cache[i].key : i \in 1..Len(cache)}

\* C14: a call of _resolve_functions that starts after a call with the same
\* file paths and naming setting has returned gets the table of that call
\* without opening a file or resolving a cell, whatever has become of the
\* files since (the cache of 32 entries is never full here, nothing is
\* evicted).
Memoized ==
    \A t \in Threads :
        (Called(t) /\ threads[t].memo) =>
            /\ threads[t].pc = "returned"
            /\ threads[t].opened = 0
            /\ threads[t].self = history.built[threads[t].key]

\* A thread got the table built before a file was rewritten, which is not the
\* table the files would give now
MemoizedAfterEdit ==
    \E t \in Threads :
        /\ Called(t)
        /\ threads[t].memo
        /\ threads[t].pc = "returned"
        /\ history.edits > 0
        /\ threads[t].self # _resolve_functions(threads[t].key[1], files)

\* C15: a call whose build raises ends with that exception for its caller and
\* leaves the cache as it was: the cache holds, for each key, the table of the
\* first call that returned and nothing else; a call that starts after a
\* failed one for the same key, none having succeeded, runs the build again.
FailureNotCached ==
    /\ CachedKeys = DOMAIN history.built
    /\ \A i \in 1..Len(cache) :
        /\ cache[i].value.ok
        /\ cache[i].value = history.built[cache[i].key]
    /\ \A t \in Threads :
        /\ threads[t].pc = "raised" =>
            /\ ~threads[t].self.ok
            /\ threads[t].self.type \in
                {"RuntimeError", "ValueError", "LookupError", "AttributeError"}
            /\ threads[t].opened >= 1
        /\ (Ended(t) /\ threads[t].retry /\ ~threads[t].memo) =>
            threads[t].opened >= 1

\* A build failed again after a failed build for the same key, while the
\* cache kept the table of another key
RetriedAfterFailure ==
    \E t \in Threads :
        /\ threads[t].pc = "raised"
        /\ threads[t].retry
        /\ threads[t].opened >= 1
        /\ cache # <<>>
        /\ threads[t].key \notin CachedKeys

\* The table has its four components, the dicts covering every permission
Complete(table) ==
    /\ table.ok
    /\ DOMAIN table = {"ok", "permission_lookup", "permission_is_global",
                       "known_user_types", "known_perms"}
    /\ DOMAIN table.permission_lookup = table.known_perms
    /\ DOMAIN table.permission_is_global = table.known_perms

\* C16: while the files stay as they are, every thread that got a table from
\* _resolve_functions, in whatever order the steps of the threads were taken,
\* has the complete table of its file paths, and threads with the same file
\* paths have equal tables.
ConcurrentCallsAgree ==
    history.edits = 0 =>
        /\ \A t \in Threads :
            threads[t].pc = "returned" =>
                /\ Complete(threads[t].self)
                /\ threads[t].self = _resolve_functions(threads[t].key[1], files)
        /\ \A t \in Threads, u \in Threads :
            (/\ threads[t].pc = "returned"
             /\ threads[u].pc = "returned"
             /\ threads[t].key = threads[u].key) =>
                threads[t].self = threads[u].self

\* Two threads each built the table of the same two files, neither finding
\* the other's in the cache
RedundantBuilds ==
    /\ history.edits = 0
    /\ \A t \in Threads :
        /\ threads[t].pc = "returned"
        /\ threads[t].opened = 2
        /\ threads[t].key = CacheKey(<<"a.csv", "b.csv">>, None)
    /\ Len(cache) = 1

----------------------------------------------------------------------------
(* Properties of the rows and the cells of a file *)

\* The row is one that _parse_csv reads as a permission with a yes/no flag
DataRow(fieldnames, row) ==
    /\ Len(row) >= 4
    /\ ~IgnoredLine(fieldnames, row)
    /\ row[4] \in {"yes", "no"}

\* The flag of the row is not the one its predefined action expects
FlagMismatch(row) ==
    \/ row[3] \in {"list", "create", "add"} /\ row[4] = "no"
    \/ row[3] \in {"detail", "change", "update", "delete"} /\ row[4] = "yes"

\* C21: the construction fails when some data row of a predefined action has
\* the flag the action does not expect (list, create, add expect global;
\* detail, change, update, delete expect local), whatever the cell texts; a
\* row of any other action is parsed with either flag.
PredefinedFlagMismatchFails ==
    Constructed =>
        /\ \A path \in Range(settings.paths) :
            \A i \in 1..Len(files[path].rows) :
                (/\ DataRow(files[path].fieldnames, files[path].rows[i])
                 /\ FlagMismatch(files[path].rows[i])) => ~backend.ok
        /\ (/\ OneCell
            /\ DataRow(files[settings.paths[1]].fieldnames, TheRow)
            /\ TheRow[1] \in DOMAIN ModelNames \cup {""}) =>
                /\ FlagMismatch(TheRow) =>
                    backend = Raise("RuntimeError", "Invalid action / global setting")
                /\ TheRow[3] \notin DOMAIN _PREDEFINED_ACTION_IS_GLOBAL =>
                    /\ _parse_csv(files[settings.paths[1]]).ok
                    /\ CellPerm \in DOMAIN
                            _parse_csv(files[settings.paths[1]]).perm_is_global
                    /\ _parse_csv(files[settings.paths[1]]).perm_is_global[CellPerm]
                            = CellIsGlobal

\* A "list" row flagged local whose only cell is "yes" stopped the construction
ListFlaggedLocalRaised ==
    /\ OneCell
    /\ TheRow[1] = "TestModelA"
    /\ TheRow[3] = "list"
    /\ TheRow[4] = "no"
    /\ CellText = "yes"
    /\ backend = Raise("RuntimeError", "Invalid action / global setting")

\* The text of the single cell is "own:" followed by nothing but whitespace
OwnWithoutLabel ==
    /\ StartsWith(CellText, "own:")
    /\ Strip(AfterFirstColon(CellText)) = ""

\* C22: a cell "own:" whose label is empty or whitespace makes the
\* construction raise while the cells are resolved, for a global permission
\* and for a local one, and even though the rules module has a function of the
\* name an empty label gives; no table, hence no decision function, is built.
OwnWithoutLabelFails ==
    (/\ Constructed
     /\ OneCell
     /\ OwnWithoutLabel
     /\ DataRow(files[settings.paths[1]].fieldnames, TheRow)) =>
        /\ ~backend.ok
        /\ CellRowValid =>
            /\ _parse_csv(files[settings.paths[1]]).ok
            /\ backend = Raise("RuntimeError", "No function name specified for 'own:'.")

\* A local permission whose only cell is "own: " stopped the construction,
\* the rules module having a function of the name the blank label gives
OwnWithBlankLabelRaised ==
    /\ OneCell
    /\ CellRowValid
    /\ ~CellIsGlobal
    /\ (ModelNames[TheRow[1]] \o "_own_") \in DOMAIN RulesModule
    /\ CellText = "own: "
    /\ backend = Raise("RuntimeError", "No function name specified for 'own:'.")

\* The single cell is "own" or "own:<label>" on a local permission of a model
\* whose rule function import_string does not find
OwnRuleMissing ==
    /\ OneCell
    /\ CellRowValid
    /\ ~CellIsGlobal
    /\ \/ CellText = "own" /\ (ModelNames[TheRow[1]] \o "_own") \notin DOMAIN RulesModule
       \/ /\ StartsWith(CellText, "own:")
          /\ ~OwnWithoutLabel
          /\ (ModelNames[TheRow[1]] \o "_own_" \o Strip(AfterFirstColon(CellText)))
                \notin DOMAIN RulesModule

\* C23: when the rule function of an "own" cell of a local permission is not
\* found, the table is built and the cell raises NotImplementedError at every
\* call, with an object and without one.
OwnMissingAlwaysNotImplemented ==
    (Constructed /\ OwnRuleMissing) =>
        CellDecides("NotImplementedError", "NotImplementedError")

\* C24: a "custom:<name>" cell is resolved for a global permission and for a
\* local one, and every check of it, with an object or without, gives what
\* the named rule function gives for that user and that object (None
\* included): False from own_model_a_or_model_b, "obj is not None" from
\* given_object, NotImplementedError from a name the rules module lacks.
CustomDelegates ==
    (Constructed /\ OneCell /\ CellRowValid) =>
        /\ CellText = "custom: own_model_a_or_model_b" => CellDecides("False", "False")
        /\ CellText = "custom: given_object" => CellDecides("False", "True")
        /\ CellText = "custom: missing" =>
                CellDecides("NotImplementedError", "NotImplementedError")

\* A global permission whose cell is "custom: given_object" was granted for an
\* object and refused without one
CustomGrantedOnGlobal ==
    /\ OneCell
    /\ CellRowValid
    /\ CellIsGlobal
    /\ CellText = "custom: given_object"
    /\ LastCallOnCell
    /\ last.obj # NoObject
    /\ last.outcome = "True"
    /\ Call(backend.permission_lookup[CellPerm][CellUserType], last.user, NoObject)
            = "False"

\* No branch of the resolution loop takes the text: it is not "own", "all",
\* "yes" or empty and starts with neither "own:" nor "custom:"
NoBranchTakes(text) ==
    /\ text \notin {"own", "all", "yes", ""}
    /\ ~StartsWith(text, "own:")
    /\ ~StartsWith(text, "custom:")

\* C25: the resolvers are tried in order and, when none of them returns a
\* decision function for a cell, the construction fails with a resolution
\* error.
UnclaimedCellFailsBuild ==
    (Constructed /\ OneCell /\ CellRowValid /\ NoBranchTakes(CellText)) =>
        /\ ~backend.ok
        /\ backend.type = "RuntimeError"

----------------------------------------------------------------------------
(* Properties of every table that is built *)

\* The last has_perm call found a cell of the table
LastCallFoundCell ==
    /\ last.called
    /\ HasCell(backend, last.perm, LastUserType)

\* C26: in every table that is built, a cell holding _access_level_yes is of
\* a permission recorded as global and a cell holding _access_level_all or
\* _access_level_own is of a permission recorded as local; so a check that
\* finds a cell made from "yes", "all", "own" or an empty text never returns
\* True for a local permission without an object or for a global permission
\* with one.
ScopeConsistent ==
    (Constructed /\ backend.ok) =>
        /\ \A perm \in DOMAIN backend.permission_lookup :
            \A user_type \in DOMAIN backend.permission_lookup[perm] :
                /\ backend.permission_lookup[perm][user_type].level = "yes"
                        => backend.permission_is_global[perm]
                /\ backend.permission_lookup[perm][user_type].level \in {"all", "own"}
                        => ~backend.permission_is_global[perm]
        /\ (/\ LastCallFoundCell
            /\ backend.permission_lookup[last.perm][LastUserType].level
                    \in {"yes", "all", "own", "no"}
            /\ backend.permission_is_global[last.perm] <=> last.obj # NoObject) =>
                last.outcome # "True"

\* A table with a global and a local permission was asked for the "yes" cell
\* of the global one with an object, and the check raised
YesCellAskedWithObject ==
    /\ backend.ok
    /\ \E perm \in DOMAIN backend.permission_is_global :
            ~backend.permission_is_global[perm]
    /\ LastCallFoundCell
    /\ backend.permission_lookup[last.perm][LastUserType].level = "yes"
    /\ last.obj # NoObject
    /\ last.outcome = "RuntimeError"

\* The permissions of the rows of the files of CSV_PERMISSIONS_PATHS
SourcePerms(parsed) == UNION {DOMAIN parsed[i].perm_is_global : i \in Sources}

\* C27: in every table that is built, from one file or several, the keys of
\* permission_lookup and the keys of permission_is_global are both the known
\* permissions, which are the permissions of all the files; every user type
\* with a cell is a known user type, and the known user types are those of
\* the headers of all the files.
DomainsAgree ==
    (Constructed /\ backend.ok) =>
        /\ DOMAIN backend.permission_lookup = backend.known_perms
        /\ DOMAIN backend.permission_is_global = backend.known_perms
        /\ \A perm \in DOMAIN backend.permission_lookup :
                DOMAIN backend.permission_lookup[perm] \subseteq backend.known_user_types
        /\ backend.known_user_types = HeaderUserTypes
        /\ \A parsed \in {ParsedSources} : backend.known_perms = SourcePerms(parsed)

\* A table of two files with different permissions and different user types,
\* one of the permissions having no cell for one of the user types
TableOfTwoSources ==
    /\ backend.ok
    /\ Len(settings.paths) = 2
    /\ Cardinality(backend.known_perms) = 2
    /\ Cardinality(backend.known_user_types) = 2
    /\ \E perm \in backend.known_perms :
            Cardinality(DOMAIN backend.permission_lookup[perm]) = 1
    /\ \A path \in Range(settings.paths) :
            /\ Len(files[path].rows) = 1
            /\ Len(files[path].fieldnames) = 5

----------------------------------------------------------------------------
(* Properties of the merge and of the rows of one file *)

\* The merge raised one of its two ValueErrors
MergeConflict(m) == ~m.ok /\ m.type = "ValueError"

\* Two merges have the same known permissions, known user types, flags and
\* cell texts
SameMerged(m1, m2) ==
    /\ m1.known_perms = m2.known_perms
    /\ m1.known_user_types = m2.known_user_types
    /\ m1.permission_is_global = m2.permission_is_global
    /\ DOMAIN m1.partially_resolved = DOMAIN m2.partially_resolved
    /\ \A p \in DOMAIN m1.partially_resolved :
        /\ DOMAIN m1.partially_resolved[p] = DOMAIN m2.partially_resolved[p]
        /\ \A u \in DOMAIN m1.partially_resolved[p] :
                m1.partially_resolved[p][u].access_level
                    = m2.partially_resolved[p][u].access_level

\* CSV_PERMISSIONS_PATHS with its two paths exchanged
Exchanged == <<settings.paths[2], settings.paths[1]>>

\* C28: for two files that both parse, the merge in one order raises one of
\* its conflict errors exactly when the merge in the other order does; when
\* neither raises, both give the same known permissions, known user types,
\* flags and cell texts, and the table built from CSV_PERMISSIONS_PATHS is
\* the one resolved from that merge.
MergeOrderIndependent ==
    (Constructed /\ Len(settings.paths) = 2) =>
        \A ab \in {MergeFiles(NoFilesMerged, settings.paths, files, 1)} :
            \A ba \in {MergeFiles(NoFilesMerged, Exchanged, files, 1)} :
                /\ backend = ResolveFiles(ab)
                /\ (\A path \in Range(settings.paths) : _parse_csv(files[path]).ok) =>
                    /\ MergeConflict(ab) <=> MergeConflict(ba)
                    /\ ab.ok <=> ba.ok
                    /\ ab.ok => SameMerged(ab, ba)

\* Two different files with a permission in common were merged into a table,
\* the first leaving empty a cell of another user type than the second's
MergedInEitherOrder ==
    /\ backend.ok
    /\ Len(settings.paths) = 2
    /\ files[settings.paths[1]] # files[settings.paths[2]]
    /\ files[settings.paths[1]].fieldnames # files[settings.paths[2]].fieldnames
    /\ \A path \in Range(settings.paths) :
            /\ Len(files[path].rows) = 1
            /\ files[path].rows[1][3] = "foo"
            /\ files[path].rows[1][4] = "yes"
    /\ files[settings.paths[1]].rows[1][5] = ""
    /\ files[settings.paths[2]].rows[1][5] = "yes"
    /\ Cardinality(backend.known_perms) = 1
    /\ Cardinality(backend.known_user_types) = 2

\* The single file of CSV_PERMISSIONS_PATHS
TheFile == files[settings.paths[1]]

\* The single file has two rows, both well-formed rows of the same model and
\* the same action that is not predefined, under a header without a repeated
\* user type
TwoRowsOfOnePermission ==
    /\ Len(settings.paths) = 1
    /\ Len(TheFile.rows) = 2
    /\ Cardinality(Range(TheFile.fieldnames)) = Len(TheFile.fieldnames)
    /\ \A i \in 1..2 :
        /\ Len(TheFile.rows[i]) = Len(TheFile.fieldnames)
        /\ DataRow(TheFile.fieldnames, TheFile.rows[i])
        /\ TheFile.rows[i][1] \in DOMAIN ModelNames
        /\ TheFile.rows[i][2] \in InstalledApps
        /\ TheFile.rows[i][3] \notin DOMAIN _PREDEFINED_ACTION_IS_GLOBAL
    /\ SubSeq(TheFile.rows[1], 1, 3) = SubSeq(TheFile.rows[2], 1, 3)

\* The permission of the two rows
RowsPerm ==
    _default_resolve_rule_name(TheFile.rows[1][2], ModelNames[TheFile.rows[1][1]],
                               TheFile.rows[1][3], TheFile.rows[1][4] = "yes")

\* C29: two rows of one file that give the same permission are no conflict:
\* _parse_csv keeps the flag of the first row and, for each user type, the
\* cell of the last row, whatever the flag and the cells of the two rows, and
\* the construction raises none of the conflict errors of the merge.
DuplicateRowsNoConflict ==
    (Constructed /\ TwoRowsOfOnePermission) =>
        \A parsed \in {_parse_csv(TheFile)} :
            /\ parsed.ok
            /\ DOMAIN parsed.perm_is_global = {RowsPerm}
            /\ parsed.perm_is_global[RowsPerm] = (TheFile.rows[1][4] = "yes")
            /\ \A k \in 5..Len(TheFile.fieldnames) :
                    parsed.perm_user_type_details[RowsPerm][TheFile.fieldnames[k]].access_level
                        = TheFile.rows[2][k]
            /\ ~MergeConflict(backend)

\* A table was built from a file whose first row flags the permission global
\* with an empty cell and whose second row flags it local with the cell "yes":
\* the permission is global and its cell grants
LaterRowDiffers ==
    /\ TwoRowsOfOnePermission
    /\ TheFile.rows[1][4] = "yes"
    /\ TheFile.rows[2][4] = "no"
    /\ TheFile.rows[1][5] = ""
    /\ TheFile.rows[2][5] = "yes"
    /\ backend.ok
    /\ backend.permission_is_global[RowsPerm]
    /\ backend.permission_lookup[RowsPerm][TheFile.fieldnames[5]].level = "yes"

----------------------------------------------------------------------------
(* Properties of the key of the cache *)

\* What has_perm answers from table: the outcome of every call for the
\* permission of the files or one that is in no file
Answers(table) ==
    [strict \in BOOLEAN, user \in Users, obj \in Objects,
     perm \in {AppLabel \o ".foo_testmodela", UnknownPerm} |->
        has_perm(table, strict, user, perm, obj).outcome]

\* C30: the cache is keyed by the tuple of paths and the naming setting and
\* not by what the files hold: once a call for a key has returned, every
\* backend constructed with that key gets its table without a file being
\* opened and answers has_perm as the table built then does, also after a
\* file was rewritten, and the entry stays in the cache; a call for a key
\* that has no entry, the same paths in the other order having one or not,
\* runs the build.
KeyedByIdentity ==
    /\ DOMAIN history.built \subseteq CachedKeys
    /\ \A t \in Threads :
        /\ (Called(t) /\ threads[t].memo) =>
            /\ Ended(t)
            /\ threads[t].opened = 0
            /\ threads[t].self.ok
            /\ Answers(threads[t].self) = Answers(history.built[threads[t].key])
        /\ (Ended(t) /\ ~threads[t].memo) => threads[t].opened = 2
    /\ \A i \in 1..Len(cache), j \in 1..Len(cache) :
            cache[i].key = cache[j].key => i = j

\* After a file was rewritten a thread got the table of its key from the
\* cache, which answers a check otherwise than the files would now, while
\* the cache holds a table for each order of the two paths
AnswersFromOldContent ==
    /\ history.edits > 0
    /\ CachedKeys = {CacheKey(paths, None) : paths \in IdentityPaths}
    /\ \E t \in Threads :
        /\ threads[t].pc = "returned"
        /\ threads[t].memo
        /\ threads[t].opened = 0
        /\ \A now \in {_resolve_functions(threads[t].key[1], files)} :
                now.ok /\ Answers(threads[t].self) # Answers(now)

====
